---- MODULE Spec2Model ----
(***************************************************************************)
(* geoschem_testing.py: the DynamoDB tagged-value codec, the primary-key   *)
(* classifier, the registry record model and the new-difference-plot      *)
(* builder.  Every function of the module is pure; a behaviour is one call *)
(* (or one chain of calls) on an input drawn by the initial state.         *)
(*                                                                         *)
(* Python values carry their run-time type, which isinstance() inspects:   *)
(* a value is a record whose field ty is the type name and whose other     *)
(* field is the payload.  A dict is a function from its keys; the order of *)
(* insertion is not kept.  A call either returns a value or raises.        *)
(***************************************************************************)
EXTENDS Integers, Sequences, FiniteSets, TLC

VARIABLES pc, arg, res

vars == <<pc, arg, res>>

(* ---------------------------- Python values ---------------------------- *)

Str(s) == [ty |-> "str", s |-> s]

Bool(b) == [ty |-> "bool", b |-> b]

List(q) == [ty |-> "list", l |-> q]

Dict(f) == [ty |-> "dict", d |-> f]

PyInt(n) == [ty |-> "int", i |-> n]

None == [ty |-> "NoneType"]

EmptyDict == Dict(<<>>)

Dict1(k, v) == Dict([kk \in {k} |-> v])

(* An exception, and the outcome of a call that raises.  excs is the set   *)
(* of exceptions the call may raise: more than one only where the first    *)
(* failure met depends on the iteration order of a dict.                   *)
Exc(type, msg) == [type |-> type, msg |-> msg]

Raise(e) == [ty |-> "raise", excs |-> {e}]

IsRaise(r) == r.ty = "raise"

Min(S) == CHOOSE x \in S : \A y \in S : x <= y

(* [f(e) for e in q]: the first element that raises ends the comprehension *)
ListComp(rs) ==
    LET bad == {i \in DOMAIN rs : IsRaise(rs[i])}
    IN  IF bad = {} THEN List(rs) ELSE rs[Min(bad)]

(* {k: f(v) for k, v in d.items()}: the first value that raises ends it    *)
DictComp(rs) ==
    LET bad == {k \in DOMAIN rs : IsRaise(rs[k])}
    IN  IF bad = {} THEN Dict(rs)
        ELSE [ty |-> "raise", excs |-> UNION {rs[k].excs : k \in bad}]

(* ------------------------- tagged-value codec -------------------------- *)

EncodeTypeError(v) == Exc("TypeError", "Invalid type for encoding: " \o v.ty)

(* dynamodb_encode_item with a branch that tags None as NULL *)
RECURSIVE EncodeNullTag(_)
EncodeNullTag(v) ==
    IF v.ty = "str" THEN Dict1("S", v)
    ELSE IF v.ty = "bool" THEN Dict1("BOOL", v)
    ELSE IF v.ty = "list" THEN
        LET es == ListComp([i \in DOMAIN v.l |-> EncodeNullTag(v.l[i])])
        IN  IF IsRaise(es) THEN es ELSE Dict1("L", es)
    ELSE IF v.ty = "dict" THEN
        LET es == DictComp([kk \in DOMAIN v.d |-> EncodeNullTag(v.d[kk])])
        IN  IF IsRaise(es) THEN es ELSE Dict1("M", es)
    ELSE IF v.ty = "NoneType" THEN Dict1("NULL", Bool(TRUE))
    ELSE Raise(EncodeTypeError(v))

RECURSIVE dynamodb_encode_item(_)
dynamodb_encode_item(v) ==
    IF v.ty = "str" THEN Dict1("S", v)
    ELSE IF v.ty = "bool" THEN Dict1("BOOL", v)
    ELSE IF v.ty = "list" THEN
        LET es == ListComp([i \in DOMAIN v.l |-> dynamodb_encode_item(v.l[i])])
        IN  IF IsRaise(es) THEN es ELSE Dict1("L", es)
    ELSE IF v.ty = "dict" THEN
        LET es == DictComp([kk \in DOMAIN v.d |-> dynamodb_encode_item(v.d[kk])])
        IN  IF IsRaise(es) THEN es ELSE Dict1("M", es)
    ELSE Raise(EncodeTypeError(v))

dynamodb_encode_dict(d) ==
    DictComp([k \in DOMAIN d.d |-> dynamodb_encode_item(d.d[k])])

DecodeTypeError == Exc("TypeError", "Value of DynamoDB dict is not a nested dict.")

DecodeValueError ==
    Exc("ValueError", "Number of key-value pairs in DynamoDB dict is not one.")

(* list(d.values())[0] of a dict *)
FirstValue(d) == d.d[CHOOSE k \in DOMAIN d.d : TRUE]

(* dynamodb_decode_item without the recursion into a dict item *)
RECURSIVE DecodeSkippingMaps(_)
DecodeSkippingMaps(d) ==
    IF d.ty # "dict" THEN Raise(DecodeTypeError)
    ELSE IF Cardinality(DOMAIN d.d) # 1 THEN Raise(DecodeValueError)
    ELSE LET item == FirstValue(d)
         IN  IF item.ty = "list"
             THEN ListComp([i \in DOMAIN item.l |-> DecodeSkippingMaps(item.l[i])])
             ELSE item

(* dynamodb_decode_item with the length test weakened to "is empty" *)
RECURSIVE DecodeFirstOfMany(_)
DecodeFirstOfMany(d) ==
    IF d.ty # "dict" THEN Raise(DecodeTypeError)
    ELSE IF Cardinality(DOMAIN d.d) = 0 THEN Raise(DecodeValueError)
    ELSE LET item == FirstValue(d)
         IN  IF item.ty = "list"
             THEN ListComp([i \in DOMAIN item.l |-> DecodeFirstOfMany(item.l[i])])
             ELSE IF item.ty = "dict"
             THEN DictComp([k \in DOMAIN item.d |-> DecodeFirstOfMany(item.d[k])])
             ELSE item

RECURSIVE dynamodb_decode_item(_)
dynamodb_decode_item(d) ==
    IF d.ty # "dict" THEN Raise(DecodeTypeError)
    ELSE IF Cardinality(DOMAIN d.d) # 1 THEN Raise(DecodeValueError)
    ELSE LET item == FirstValue(d)
         IN  IF item.ty = "list"
             THEN ListComp([i \in DOMAIN item.l |-> dynamodb_decode_item(item.l[i])])
             ELSE IF item.ty = "dict"
             THEN DictComp([k \in DOMAIN item.d |-> dynamodb_decode_item(item.d[k])])
             ELSE item

dynamodb_decode_dict(d) ==
    DictComp([k \in DOMAIN d.d |-> dynamodb_decode_item(d.d[k])])

(* ----------------------- inputs of the codec --------------------------- *)

(* Largest number of nodes (scalars and containers) of a generated value.  *)
MaxNodes == 5

Atoms == {Str("x"), Bool(TRUE), None}

KeyName(i) == "k" \o ToString(i)

(* The dict whose i-th key (k1, k2, ...) holds the i-th value of q.        *)
DictOf(q) == Dict([k \in {KeyName(i) : i \in DOMAIN q} |->
                     q[CHOOSE i \in DOMAIN q : KeyName(i) = k]])

(* The values of exactly n nodes and the sequences of values of n nodes in  *)
(* total, built size by size up to m nodes: vs[n] holds the values of n    *)
(* nodes and qs[n + 1] the sequences of n nodes.                           *)
RECURSIVE BySize(_, _, _, _)
BySize(n, m, vs, qs) ==
    IF n > m THEN [vs |-> vs, qs |-> qs]
    ELSE LET vn  == (IF n = 1 THEN Atoms ELSE {})
                      \cup {List(q) : q \in qs[n]}
                      \cup {DictOf(q) : q \in qs[n]}
             vs1 == Append(vs, vn)
             qn  == UNION {{<<v>> \o q : v \in vs1[k], q \in qs[n - k + 1]} :
                             k \in 1..n}
         IN  BySize(n + 1, m, vs1, Append(qs, qn))

Smaller == BySize(1, MaxNodes - 1, <<>>, <<{<<>>}>>)

(* v is a value of at most MaxNodes nodes: an atom, or a list or a dict of *)
(* smaller values.                                                         *)
IsPyValue(v) ==
    \/ v \in Atoms \cup {List(<<>>), EmptyDict}
    \/ \E n \in 1..(MaxNodes - 1) : \E k \in 1..n :
          \E h \in Smaller.vs[k], q \in Smaller.qs[n - k + 1] :
              v \in {List(<<h>> \o q), DictOf(<<h>> \o q)}

(* v with a number in the place of every None. *)
RECURSIVE Numbered(_)
Numbered(v) ==
    IF v.ty = "NoneType" THEN PyInt(1)
    ELSE IF v.ty = "list" THEN List([i \in DOMAIN v.l |-> Numbered(v.l[i])])
    ELSE IF v.ty = "dict" THEN Dict([k \in DOMAIN v.d |-> Numbered(v.d[k])])
    ELSE v

(* The values of fewer than MaxNodes nodes with numbers for their Nones. *)
NumberValues == {Numbered(v) : v \in UNION {Smaller.vs[n] : n \in 1..(MaxNodes - 1)}}

(* A native value: built from str, bool, list and dict only.               *)
RECURSIVE IsNative(_)
IsNative(v) ==
    \/ v.ty \in {"str", "bool"}
    \/ v.ty = "list" /\ \A i \in DOMAIN v.l : IsNative(v.l[i])
    \/ v.ty = "dict" /\ \A k \in DOMAIN v.d : IsNative(v.d[k])

(* --------------------------- codec calls ------------------------------- *)

InitCodec ==
    /\ pc = "start"
    /\ res = None
    /\ IsPyValue(arg) \/ arg \in NumberValues

EncodeItem ==
    /\ pc = "start"
    /\ res' = dynamodb_encode_item(arg)
    /\ pc' = "encoded"
    /\ UNCHANGED arg

EncodeDict ==
    /\ pc = "start"
    /\ arg.ty = "dict"
    /\ res' = dynamodb_encode_dict(arg)
    /\ pc' = "encoded_dict"
    /\ UNCHANGED arg

(* decode of the input itself, or of what encode returned for it *)
DecodeItem ==
    /\ \/ pc = "start" /\ res' = dynamodb_decode_item(arg) /\ pc' = "decoded"
       \/ pc = "encoded" /\ ~IsRaise(res)
            /\ res' = dynamodb_decode_item(res) /\ pc' = "roundtrip"
    /\ UNCHANGED arg

NextCodec == EncodeItem \/ EncodeDict \/ DecodeItem

SpecCodec == InitCodec /\ [][NextCodec]_vars

(* ------------------------- regular expressions ------------------------- *)

(* A pattern of the re module as a tree.  Ends(r, s, i) is the sequence of *)
(* positions at which a match of r that starts at position i of s can end, *)
(* in the order the backtracking matcher tries them (greedy repetition:    *)
(* one more iteration before none; alternatives left to right).            *)
Lit(s) == [t |-> "lit", s |-> s]

Cls(cs) == [t |-> "set", cs |-> cs]

Cat(rs) == [t |-> "cat", rs |-> rs]

Alt(rs) == [t |-> "alt", rs |-> rs]

Opt(r) == [t |-> "opt", r |-> r]

Star(r) == [t |-> "star", r |-> r]

Plus(r) == Cat(<<r, Star(r)>>)

(* ^ : the start of the string (no MULTILINE flag) *)
Bol == [t |-> "bol"]

(* $ : the end of the string, or just before a newline that ends it *)
Eol == [t |-> "eol"]

RECURSIVE Ends(_, _, _), EndsFrom(_, _, _)
Ends(r, s, i) ==
    CASE r.t = "lit" ->
           IF i + Len(r.s) - 1 <= Len(s) /\ SubSeq(s, i, i + Len(r.s) - 1) = r.s
           THEN <<i + Len(r.s)>> ELSE <<>>
      [] r.t = "set" ->
           IF i <= Len(s) /\ SubSeq(s, i, i) \in r.cs THEN <<i + 1>> ELSE <<>>
      [] r.t = "cat" ->
           IF Len(r.rs) = 0 THEN <<i>>
           ELSE EndsFrom(Cat(Tail(r.rs)), s, Ends(Head(r.rs), s, i))
      [] r.t = "alt" ->
           IF Len(r.rs) = 0 THEN <<>>
           ELSE Ends(Head(r.rs), s, i) \o Ends(Alt(Tail(r.rs)), s, i)
      [] r.t = "opt" -> Ends(r.r, s, i) \o <<i>>
      [] r.t = "star" ->
           EndsFrom(r, s, SelectSeq(Ends(r.r, s, i), LAMBDA j : j > i)) \o <<i>>
      [] r.t = "bol" -> IF i = 1 THEN <<i>> ELSE <<>>
      [] r.t = "eol" ->
           IF i = Len(s) + 1 \/ (i = Len(s) /\ SubSeq(s, i, i) = "\n")
           THEN <<i>> ELSE <<>>

EndsFrom(r, s, js) ==
    IF Len(js) = 0 THEN <<>>
    ELSE Ends(r, s, Head(js)) \o EndsFrom(r, s, Tail(js))

(* bool(re.match(r, s)): a match that starts at the first character *)
ReMatch(r, s) == Len(Ends(r, s, 1)) > 0

(* re.search(r, s): the leftmost match; group(0) is the text it covers *)
ReSearch(r, s) ==
    LET starts == {i \in 1..(Len(s) + 1) : Len(Ends(r, s, i)) > 0}
    IN  IF starts = {} THEN [found |-> FALSE]
        ELSE LET i == Min(starts)
             IN  [found |-> TRUE, group0 |-> SubSeq(s, i, Head(Ends(r, s, i)) - 1)]

(* str.removesuffix *)
removesuffix(s, suffix) ==
    IF Len(s) >= Len(suffix) /\ SubSeq(s, Len(s) - Len(suffix) + 1, Len(s)) = suffix
    THEN SubSeq(s, 1, Len(s) - Len(suffix))
    ELSE s

(* str.startswith, and "sub in s" *)
StartsWith(s, prefix) ==
    Len(s) >= Len(prefix) /\ SubSeq(s, 1, Len(prefix)) = prefix

Contains(s, sub) ==
    \E i \in 1..(Len(s) - Len(sub) + 1) : SubSeq(s, i, i + Len(sub) - 1) = sub

(* ------------------------ primary-key classifier ----------------------- *)

Digit == {"0", "1", "2", "3", "4", "5", "6", "7", "8", "9"}

NonZeroDigit == Digit \ {"0"}

HexDigit == Digit \cup {"a", "b", "c", "d", "e", "f"}

Letter ==
    {"a", "b", "c", "d", "e", "f", "g", "h", "i", "j", "k", "l", "m",
     "n", "o", "p", "q", "r", "s", "t", "u", "v", "w", "x", "y", "z",
     "A", "B", "C", "D", "E", "F", "G", "H", "I", "J", "K", "L", "M",
     "N", "O", "P", "Q", "R", "S", "T", "U", "V", "W", "X", "Y", "Z"}

(* 0|[1-9]\d* *)
NumericId == Alt(<<Lit("0"), Cat(<<Cls(NonZeroDigit), Star(Cls(Digit))>>)>>)

(* 0|[1-9]\d*|\d*[a-zA-Z-][0-9a-zA-Z-]* *)
PrereleaseId ==
    Alt(<<Lit("0"),
          Cat(<<Cls(NonZeroDigit), Star(Cls(Digit))>>),
          Cat(<<Star(Cls(Digit)), Cls(Letter \cup {"-"}),
                Star(Cls(Digit \cup Letter \cup {"-"}))>>)>>)

(* [0-9a-zA-Z-]+ *)
BuildId == Plus(Cls(Digit \cup Letter \cup {"-"}))

semver_re ==
    Cat(<<NumericId, Lit("."), NumericId, Lit("."), NumericId,
          Opt(Cat(<<Lit("-"), PrereleaseId, Star(Cat(<<Lit("."), PrereleaseId>>))>>)),
          Opt(Cat(<<Lit("+"), BuildId, Star(Cat(<<Lit("."), BuildId>>))>>))>>)

commit_hash_re ==
    Cat(<<Cls(HexDigit), Cls(HexDigit), Cls(HexDigit), Cls(HexDigit),
          Cls(HexDigit), Cls(HexDigit), Cls(HexDigit)>>)

resolution_re ==
    Alt(<<Lit("2x25"), Lit("2x2.5"), Lit("4x5"),
          Cat(<<Opt(Lit("c")), Lit("24")>>), Cat(<<Opt(Lit("c")), Lit("48")>>),
          Cat(<<Opt(Lit("c")), Lit("90")>>), Cat(<<Opt(Lit("c")), Lit("180")>>)>>)

(* the simulation pattern without the 1Hr cadence *)
SimulationReMonthlyOnly ==
    Cat(<<Alt(<<Lit("gcc"), Lit("gchp")>>), Lit("-"),
          Opt(Cat(<<resolution_re, Lit("-")>>)),
          Alt(<<Lit("1Mon")>>), Lit("-"),
          Alt(<<semver_re, commit_hash_re>>),
          Opt(Lit(".bd"))>>)

simulation_re ==
    Cat(<<Alt(<<Lit("gcc"), Lit("gchp")>>), Lit("-"),
          Opt(Cat(<<resolution_re, Lit("-")>>)),
          Alt(<<Lit("1Mon"), Lit("1Hr")>>), Lit("-"),
          Alt(<<semver_re, commit_hash_re>>),
          Opt(Lit(".bd"))>>)

(* the difference pattern with the separator of the two identifiers lost *)
DifferenceReNoSeparator ==
    Cat(<<Bol, Lit("diff-"), simulation_re, simulation_re, Eol>>)

difference_re ==
    Cat(<<Bol, Lit("diff-"), simulation_re, Lit("-"), simulation_re, Eol>>)

GithubUrl(repo, kind, commit_id) ==
    "https://github.com/geoschem/" \o repo \o "/" \o kind \o "/" \o commit_id

(* the two version checks in the other order: the semantic version last *)
VersionSemverLast(repo, primary_key) ==
    LET semver_tag  == ReSearch(semver_re, primary_key)
        commit_hash == ReSearch(commit_hash_re, primary_key)
        hash_id     == removesuffix(commit_hash.group0, ".bd")
        semver_id   == removesuffix(semver_tag.group0, ".bd")
    IN  IF semver_tag.found
        THEN [commit_id |-> Str(semver_id),
              code_url  |-> Str(GithubUrl(repo, "tree", semver_id))]
        ELSE IF commit_hash.found
        THEN [commit_id |-> Str(hash_id),
              code_url  |-> Str(GithubUrl(repo, "commit", hash_id))]
        ELSE [commit_id |-> None, code_url |-> None]

(* the version taken from the commit-hash search alone *)
VersionHashOnly(repo, primary_key) ==
    LET commit_hash == ReSearch(commit_hash_re, primary_key)
        hash_id     == removesuffix(commit_hash.group0, ".bd")
    IN  IF commit_hash.found
        THEN [commit_id |-> Str(hash_id),
              code_url  |-> Str(GithubUrl(repo, "commit", hash_id))]
        ELSE [commit_id |-> None, code_url |-> None]

(* commit_id and code_url after the two searches of a simulation key: the  *)
(* assignments of the commit-hash search come last and overwrite.          *)
Version(repo, primary_key) ==
    LET semver_tag  == ReSearch(semver_re, primary_key)
        commit_hash == ReSearch(commit_hash_re, primary_key)
        hash_id     == removesuffix(commit_hash.group0, ".bd")
        semver_id   == removesuffix(semver_tag.group0, ".bd")
        after_semver ==
            IF semver_tag.found
            THEN [commit_id |-> Str(semver_id),
                  code_url  |-> Str(GithubUrl(repo, "tree", semver_id))]
            ELSE [commit_id |-> None, code_url |-> None]
    IN  IF commit_hash.found
        THEN [commit_id |-> Str(hash_id),
              code_url  |-> Str(GithubUrl(repo, "commit", hash_id))]
        ELSE after_semver

Classification(classification, api, code_url, commit_id) ==
    [ty |-> "PrimaryKeyClassification", classification |-> classification,
     api |-> api, code_url |-> code_url, commit_id |-> commit_id]

ReTypeError == Exc("TypeError", "expected string or bytes-like object")

(* PrimaryKeyClassification(primary_key=...): the object __post_init__     *)
(* leaves, or the exception re.match raises for a key that is no string.   *)
PrimaryKeyClassification(primary_key) ==
    IF primary_key.ty # "str" THEN Raise(ReTypeError)
    ELSE IF ReMatch(Cat(<<Bol, simulation_re, Eol>>), primary_key.s) THEN
        LET gchp == ReMatch(Cat(<<Bol, Lit("gchp")>>), primary_key.s)
            repo == IF gchp THEN "GCHP" ELSE "GCClassic"
            v    == Version(repo, primary_key.s)
        IN  Classification(
                Str(IF gchp THEN "GCHP Simulation" ELSE "GC-Classic Simulation"),
                Str("simulation"), v.code_url, v.commit_id)
    ELSE IF ReMatch(difference_re, primary_key.s) THEN
        Classification(Str("Difference Plots"), Str("difference"), None, None)
    ELSE Classification(Str("Unknown"), None, None, None)

(* --------------------- inputs of the classifier ------------------------ *)

(* Largest number of dot-separated identifiers of a generated pre-release. *)
MaxIdents == 2

Engines == {"gcc", "gchp"}

Resolutions ==
    {"2x25", "2x2.5", "4x5", "24", "c24", "48", "c48", "90", "c90", "180", "c180"}

Cadences == {"1Mon", "1Hr"}

Hashes == {"f9a901a", "483b659", "3f70328"}

PreIdents == {"rc", "3", "abcdef1"}

RECURSIVE IdentLists(_)
IdentLists(n) ==
    IF n = 1 THEN PreIdents
    ELSE {a \o "." \o b : a \in IdentLists(n - 1), b \in PreIdents}

Prereleases == {""} \cup {"-" \o x : x \in UNION {IdentLists(n) : n \in 1..MaxIdents}}

SemVers ==
    {c \o p \o b : c \in {"13.4.0", "1234567.0.1"}, p \in Prereleases, b \in {"", "+b1"}}
      \cup {"1.0.0-a-1Hr-b"}

(* Tokens outside the grammar: each makes the key it is part of unmatched. *)
BadEngines == {"gc"}

BadResolutions == {"c25"}

BadCadences == {"1Day"}

BadVersions == {"", "f9a901", "f9a901ab", "F9A901A", "13.4", "01.2.3", "1.2.3-01"}

(* The key <engine>-[<resolution>-]<cadence>-<version>[.bd] and the tokens *)
(* it was put together from; wellformed: every token is of the grammar.    *)
SimulationKey(e, r, c, v, b) ==
    [form |-> "simulation",
     key |-> Str(e \o "-" \o (IF r = "" THEN "" ELSE r \o "-") \o c \o "-" \o v \o b),
     engine |-> e, version |-> v,
     wellformed |-> /\ e \in Engines
                    /\ r \in Resolutions \cup {""}
                    /\ c \in Cadences
                    /\ v \in SemVers \cup Hashes]

(* Every resolution with two versions, every version with two resolutions. *)
SimulationKeys ==
    {SimulationKey(t[1], t[2], t[3], t[4], t[5]) :
       t \in {u \in (Engines \cup BadEngines)
                      \X (Resolutions \cup BadResolutions \cup {""})
                      \X (Cadences \cup BadCadences)
                      \X (SemVers \cup Hashes \cup BadVersions)
                      \X {"", ".bd"} :
                u[2] \in {"", "4x5"} \/ u[4] \in {"f9a901a", "13.4.0-rc.3"}}}

(* The identifiers a difference key is put together from. *)
DifferenceSides ==
    {SimulationKey("gcc", "", "1Hr", "3f70328", ".bd"),
     SimulationKey("gchp", "c24", "1Mon", "13.4.0-rc.3", ""),
     SimulationKey("gcc", "2x2.5", "1Mon", "13.4.0", ".bd"),
     SimulationKey("gchp", "", "1Hr", "1234567.0.1-abcdef1+b1", ""),
     SimulationKey("gcc", "", "1Mon", "1.0.0-a-1Hr-b", ""),
     SimulationKey("gcc", "", "1Day", "13.4.0", ""),
     SimulationKey("gc", "", "1Hr", "483b659", "")}

DifferenceKey(ref, dev) ==
    [form |-> "difference",
     key |-> Str("diff-" \o ref.key.s \o "-" \o dev.key.s),
     wellformed |-> ref.wellformed /\ dev.wellformed]

DifferenceKeys == {DifferenceKey(ref, dev) : ref \in DifferenceSides, dev \in DifferenceSides}

(* Keys of neither form, and the key that is absent. *)
OtherKeys ==
    {[form |-> "other", key |-> k, wellformed |-> FALSE] :
       k \in {None, Str(""), Str("gcc"), Str("diff-"),
              Str("gcc-1Hr-483b659\n"), Str("gchp-1Mon-13.4.0-rc.3.bd\n"),
              Str("diff-gcc-1Hr-3f70328.bd-gcc-1Hr-3f70328.bd\n"),
              Str(" gcc-1Hr-483b659"), Str("gcc-1Hr-483b659 "),
              Str("gcc-1Hr-483b659.bd.bd"), Str("GCC-1Hr-483b659"),
              Str("gcc-1Hr-483b659-gcc-1Hr-483b659"),
              Str("diff-gcc-1Hr-483b659"), Str("diff-gcc-1Hr-483b659-"),
              Str("diff-gcc-1Hr-483b659gcc-1Hr-483b659"),
              Str("diff-gcc-1Hr-483b659-gcc-1Hr-483b659-gcc-1Hr-483b659")}}

(* ------------------------- classifier calls ---------------------------- *)

InitClassifier ==
    /\ pc = "start"
    /\ arg \in SimulationKeys \cup DifferenceKeys \cup OtherKeys
    /\ res = None

Classify ==
    /\ pc = "start"
    /\ res' = PrimaryKeyClassification(arg.key)
    /\ pc' = "classified"
    /\ UNCHANGED arg

NextClassifier == Classify

SpecClassifier == InitClassifier /\ [][NextClassifier]_vars

(* ------------------------- registry records --------------------------- *)

(* d.get(k) and d.get(k, default) of a dict *)
Get(d, k) == IF k \in DOMAIN d.d THEN d.d[k] ELSE None

GetOr(d, k, default) == IF k \in DOMAIN d.d THEN d.d[k] ELSE default

KeyError(k) == Exc("KeyError", k)

IndexError == Exc("IndexError", "list index out of range")

(* A RegistryEntryStage whose fields are the defaults of the dataclass.    *)
NewStage ==
    [ty |-> "RegistryEntryStage", name |-> None, completed |-> None,
     log_file |-> None, start_time |-> None, end_time |-> None,
     artifacts |-> List(<<>>), public_artifacts |-> List(<<>>),
     metadata |-> Str("{}")]

(* the assignments of RegistryEntryStage.__post_init__ from the decoded    *)
(* mapping d, or the exception the decoding raised                         *)
FillStage(self, d) ==
    IF IsRaise(d) THEN d
    ELSE [self EXCEPT !.name = Get(d, "Name"),
                      !.log_file = Get(d, "Log"),
                      !.completed = Get(d, "Completed"),
                      !.start_time = Get(d, "StartTime"),
                      !.end_time = Get(d, "EndTime"),
                      !.artifacts = Get(d, "Artifacts"),
                      !.public_artifacts = Get(d, "PublicArtifacts"),
                      !.metadata = Get(d, "Metadata")]

(* RegistryEntryStage.__post_init__ on the object self *)
RegistryEntryStage_post_init(self, dynamodb_stage_result) ==
    IF dynamodb_stage_result.ty = "NoneType" THEN self
    ELSE FillStage(self, dynamodb_decode_dict(dynamodb_stage_result))

(* RegistryEntryStage(dynamodb_stage_result=...) *)
RegistryEntryStage(dynamodb_stage_result) ==
    RegistryEntryStage_post_init(NewStage, dynamodb_stage_result)

(* The fields of RegistryEntry with the defaults of the dataclass.         *)
NewEntryFields ==
    [primary_key |-> None, creation_date |-> None, execution_status |-> None,
     execution_site |-> None, s3_uri |-> None, description |-> None,
     primary_key_classification |-> None]

NewRegistryEntry == [ty |-> "RegistryEntry"] @@ NewEntryFields

NewRegistryEntrySimulation ==
    [ty |-> "RegistryEntrySimulation", setup_run_directory |-> None,
     run_simulation_directory |-> None] @@ NewEntryFields

NewRegistryEntryDiff ==
    [ty |-> "RegistryEntryDiff", run_gcpy_stage |-> None,
     emissions_totals_link |-> None, global_mass_trop_link |-> None,
     global_mass_tropstrat_link |-> None, inventory_totals_link |-> None,
     oh_metrics_link |-> None] @@ NewEntryFields

(* self.primary_key_classification = c, or the exception c *)
SetClassification(self, c) ==
    IF IsRaise(c) THEN c ELSE [self EXCEPT !.primary_key_classification = c]

(* the last statement of RegistryEntry.__post_init__ *)
ClassifyEntry(self) ==
    SetClassification(self, PrimaryKeyClassification(self.primary_key))

(* the assignments of RegistryEntry.__post_init__ from the decoded mapping *)
(* d and its last statement, or the exception the decoding raised          *)
LoadEntry(self, d) ==
    IF IsRaise(d) THEN d
    ELSE ClassifyEntry([self EXCEPT !.primary_key = Get(d, "InstanceID"),
                                    !.creation_date = Get(d, "CreationDate"),
                                    !.execution_status = Get(d, "ExecStatus"),
                                    !.execution_site = Get(d, "Site"),
                                    !.s3_uri = Get(d, "S3Uri"),
                                    !.description = Get(d, "Description")])

(* RegistryEntry.__post_init__ on the object self *)
RegistryEntry_post_init(self, dynamodb_scan_result) ==
    IF dynamodb_scan_result.ty = "NoneType" THEN ClassifyEntry(self)
    ELSE LoadEntry(self, dynamodb_decode_dict(dynamodb_scan_result))

(* dynamodb_query_result["Stages"]["L"]: the list of stage nodes, or the   *)
(* KeyError of the subscript that fails                                    *)
StagesOf(dynamodb_query_result) ==
    IF "Stages" \notin DOMAIN dynamodb_query_result.d THEN Raise(KeyError("Stages"))
    ELSE IF "L" \notin DOMAIN dynamodb_query_result.d["Stages"].d
    THEN Raise(KeyError("L"))
    ELSE dynamodb_query_result.d["Stages"].d["L"]

(* stages[i].get("M", {}) if len(stages) >= n else {}, with i counted from *)
(* zero; the subscript raises when the list is too short for it            *)
StageAt(stages, i, n) ==
    IF Len(stages.l) >= n
    THEN IF i + 1 <= Len(stages.l)
         THEN RegistryEntryStage(GetOr(stages.l[i + 1], "M", EmptyDict))
         ELSE Raise(IndexError)
    ELSE RegistryEntryStage(EmptyDict)

(* self.setup_run_directory = first; self.run_simulation_directory =       *)
(* second, or the exception the first of them to fail raised               *)
SetSimulationStages(self, first, second) ==
    IF IsRaise(first) THEN first
    ELSE IF IsRaise(second) THEN second
    ELSE [self EXCEPT !.setup_run_directory = first,
                      !.run_simulation_directory = second]

(* the stage assignments with the second stage guarded by the length test  *)
(* of the first                                                            *)
SimulationStagesSameGuard(base, stages) ==
    IF IsRaise(base) THEN base
    ELSE IF IsRaise(stages) THEN stages
    ELSE SetSimulationStages(base, StageAt(stages, 0, 1), StageAt(stages, 1, 1))

(* the statements of RegistryEntrySimulation.__post_init__ after the call  *)
(* of the base class, which returned base                                  *)
SimulationStages(base, stages) ==
    IF IsRaise(base) THEN base
    ELSE IF IsRaise(stages) THEN stages
    ELSE SetSimulationStages(base, StageAt(stages, 0, 1), StageAt(stages, 1, 2))

(* RegistryEntrySimulation.__post_init__ on the object self *)
RegistryEntrySimulation_post_init(self, dynamodb_scan_result, dynamodb_query_result) ==
    IF dynamodb_query_result.ty # "NoneType"
    THEN SimulationStages(RegistryEntry_post_init(self, dynamodb_query_result),
                          StagesOf(dynamodb_query_result))
    ELSE RegistryEntry_post_init(self, dynamodb_scan_result)

(* self.run_gcpy_stage = first, or the exception it raised *)
SetDiffStage(self, first) ==
    IF IsRaise(first) THEN first ELSE [self EXCEPT !.run_gcpy_stage = first]

(* the statements of RegistryEntryDiff.__post_init__ after the call of the *)
(* base class, which returned base                                         *)
DiffStages(base, stages) ==
    IF IsRaise(base) THEN base
    ELSE IF IsRaise(stages) THEN stages
    ELSE SetDiffStage(base, StageAt(stages, 0, 1))

(* RegistryEntryDiff.__post_init__ on the object self *)
RegistryEntryDiff_post_init(self, dynamodb_scan_result, dynamodb_query_result) ==
    IF dynamodb_query_result.ty # "NoneType"
    THEN DiffStages(RegistryEntry_post_init(self, dynamodb_query_result),
                    StagesOf(dynamodb_query_result))
    ELSE RegistryEntry_post_init(self, dynamodb_scan_result)

(* one item of parse_query_response_astype: astype(dynamodb_query_result=item) *)
parse_query_response_astype(item, astype) ==
    IF astype = "RegistryEntrySimulation"
    THEN RegistryEntrySimulation_post_init(NewRegistryEntrySimulation, None, item)
    ELSE RegistryEntryDiff_post_init(NewRegistryEntryDiff, None, item)

(* one item of parse_scan_response: RegistryEntry(dynamodb_scan_result=item) *)
parse_scan_response(item) == RegistryEntry_post_init(NewRegistryEntry, item)

(* RegistryEntry, RegistryEntrySimulation, RegistryEntryDiff and           *)
(* RegistryEntryStage called with the keyword arguments kw: the fields kw  *)
(* names get their values, the others the defaults, and __post_init__ runs *)
(* without a scan, query or stage result.                                  *)
RegistryEntryKw(kw) == RegistryEntry_post_init(kw @@ NewRegistryEntry, None)

RegistryEntrySimulationKw(kw) ==
    RegistryEntrySimulation_post_init(kw @@ NewRegistryEntrySimulation, None, None)

RegistryEntryDiffKw(kw) ==
    RegistryEntryDiff_post_init(kw @@ NewRegistryEntryDiff, None, None)

RegistryEntryStageKw(kw) == RegistryEntryStage_post_init(kw @@ NewStage, None)

(* ----------------------- inputs of the registry ------------------------ *)

(* Largest length of a generated Stages list. *)
MaxStages == 3

SetupStage ==
    Dict([Name |-> Str("SetupRunDirectory"), Completed |-> Bool(TRUE),
          Log |-> Str("http://s3.amazonaws.com/benchmarks-cloud/SetupRunDirectory.txt"),
          StartTime |-> Str("2022-03-28T17:45:04+0000"),
          EndTime |-> Str("2022-03-28T18:00:15+0000"),
          Artifacts |-> List(<<Str("s3://benchmarks-cloud/RunDirectory.tar.gz")>>),
          PublicArtifacts |-> List(<<>>),
          Metadata |-> Str("{}")])

RunStage ==
    Dict([Name |-> Str("RunGCHP"), Completed |-> Bool(FALSE),
          Log |-> Str("http://s3.amazonaws.com/benchmarks-cloud/RunGCHP.txt"),
          StartTime |-> Str("2022-03-28T19:26:04+0000"),
          Artifacts |-> List(<<>>),
          PublicArtifacts |-> List(<<Str("http://s3.amazonaws.com/OH_metrics.txt")>>),
          Metadata |-> Str("{\"nodes\": 2}")])

(* A stage of the Stages list: the node on the wire, and the mapping the   *)
(* stage object is to be filled from (empty for a node without an M tag).  *)
StageNodes ==
    {[node |-> Dict1("M", dynamodb_encode_dict(m)), fields |-> m] :
        m \in {SetupStage, RunStage, EmptyDict}}
      \cup {[node |-> Dict1("S", Str("x")), fields |-> EmptyDict]}

RECURSIVE StageLists(_)
StageLists(n) ==
    IF n = 0 THEN {<<>>}
    ELSE {Append(q, x) : q \in StageLists(n - 1), x \in StageNodes}

EntryFields(key) ==
    [InstanceID |-> Str(key), CreationDate |-> Str("2022-03-28"),
     ExecStatus |-> Str("SUCCESSFUL"), Site |-> Str("AWS"),
     S3Uri |-> Str("s3://benchmarks-cloud/benchmarks/" \o key),
     Description |-> Str("benchmark " \o key)]

(* The item a point query returns: the encoded fields and the Stages list; *)
(* without its InstanceID when keyed is FALSE.                             *)
QueryResult(key, keyed, stages) ==
    LET fields == dynamodb_encode_dict(Dict(EntryFields(key))).d
        kept   == IF keyed THEN DOMAIN fields ELSE DOMAIN fields \ {"InstanceID"}
    IN  Dict([k \in kept |-> fields[k]]
             @@ [Stages |-> Dict1("L", List([i \in DOMAIN stages |-> stages[i].node]))])

RegistryKeys ==
    {"gchp-1Mon-13.4.0-rc.3.bd", "diff-gcc-1Hr-3f70328.bd-gcc-1Hr-3f70328.bd",
     "scratch"}

(* The item a scan returns: the encoded fields, without S3Uri when the     *)
(* scan projects it away, and without its InstanceID when keyed is FALSE.  *)
ScanResult(key, keyed, projected) ==
    LET fields == dynamodb_encode_dict(Dict(EntryFields(key))).d
        kept   == (DOMAIN fields \ (IF keyed THEN {} ELSE {"InstanceID"}))
                     \ (IF projected THEN {"S3Uri"} ELSE {})
    IN  Dict([k \in kept |-> fields[k]])

(* ---------------------------- registry calls --------------------------- *)

InitRegistry ==
    /\ pc = "start"
    /\ res = None
    /\ \E key \in RegistryKeys, keyed \in BOOLEAN :
         \/ \E n \in 0..MaxStages : \E stages \in StageLists(n) :
              \E astype \in {"RegistryEntrySimulation", "RegistryEntryDiff"} :
                 arg = [astype |-> astype, key |-> key, keyed |-> keyed,
                        stages |-> stages, projected |-> FALSE,
                        item |-> QueryResult(key, keyed, stages)]
         \/ \E projected \in BOOLEAN :
              arg = [astype |-> "RegistryEntry", key |-> key, keyed |-> keyed,
                     stages |-> <<>>, projected |-> projected,
                     item |-> ScanResult(key, keyed, projected)]

ParseScan ==
    /\ pc = "start"
    /\ arg.astype = "RegistryEntry"
    /\ res' = parse_scan_response(arg.item)
    /\ pc' = "scanned"
    /\ UNCHANGED arg

ParseSimulation ==
    /\ pc = "start"
    /\ arg.astype = "RegistryEntrySimulation"
    /\ res' = parse_query_response_astype(arg.item, "RegistryEntrySimulation")
    /\ pc' = "parsed"
    /\ UNCHANGED arg

ParseDiff ==
    /\ pc = "start"
    /\ arg.astype = "RegistryEntryDiff"
    /\ res' = parse_query_response_astype(arg.item, "RegistryEntryDiff")
    /\ pc' = "parsed"
    /\ UNCHANGED arg

NextRegistry == ParseScan \/ ParseSimulation \/ ParseDiff

SpecRegistry == InitRegistry /\ [][NextRegistry]_vars

(* ---------------------- new difference plot ---------------------------- *)

NoPeriodError == Exc("RuntimeError", "No period regex matched reference key")

InvalidSiteError == Exc("RuntimeError", "Invalid site.")

(* the cadence tests with the monthly marker tried first *)
SuffixMonthlyFirst(ref) ==
    IF Contains(ref, "-1Mon-") THEN Str("1Mon")
    ELSE IF Contains(ref, "-1Day-") THEN Str("1Day")
    ELSE IF Contains(ref, "-1Hr-") THEN Str("1Hr")
    ELSE Raise(NoPeriodError)

(* s3_uri_suffix of get_put_item, or the RuntimeError of its last branch *)
s3_uri_suffix(ref) ==
    IF Contains(ref, "-1Hr-") THEN Str("1Hr")
    ELSE IF Contains(ref, "-1Day-") THEN Str("1Day")
    ELSE IF Contains(ref, "-1Mon-") THEN Str("1Mon")
    ELSE Raise(NoPeriodError)

(* the site test with one bucket for both sites *)
S3RootOneBucket(execution_site) ==
    IF execution_site \in {"AWS", "WUSTL"} THEN Str("s3://benchmarks-cloud/diff-plots")
    ELSE Raise(InvalidSiteError)

(* the site test with the second bucket for every site that is not AWS *)
S3RootDefaultBucket(execution_site) ==
    IF execution_site = "AWS" THEN Str("s3://benchmarks-cloud/diff-plots")
    ELSE Str("s3://washu-benchmarks-cloud/diff-plots")

(* s3_uri before the suffix is added, or the RuntimeError of the site test *)
s3_root(execution_site) ==
    IF execution_site = "AWS" THEN Str("s3://benchmarks-cloud/diff-plots")
    ELSE IF execution_site = "WUSTL" THEN Str("s3://washu-benchmarks-cloud/diff-plots")
    ELSE Raise(InvalidSiteError)

(* get_put_item with the two identifiers of the primary key run together *)
GetPutItemKeyNoSeparator(ref, dev, execution_site, today) ==
    LET primary_key == "diff-" \o ref \o dev
        suffix      == s3_uri_suffix(ref)
        root        == s3_root(execution_site)
        s3_uri      == root.s \o "/" \o suffix.s \o "/" \o primary_key
        item ==
            [InstanceID |-> Str(primary_key),
             CreationDate |-> Str(today),
             ExecStatus |-> Str("PENDING"),
             S3Uri |-> Str(s3_uri),
             Description |-> Str("Benchmark plots for Ref=" \o ref \o " and Dev="
                                   \o dev \o " (" \o suffix.s \o ")"),
             Site |-> Str(execution_site),
             Stages |-> List(<<>>)]
    IN  IF IsRaise(suffix) THEN suffix
        ELSE IF IsRaise(root) THEN root
        ELSE dynamodb_encode_dict(Dict(item))

(* NewDifferencePlot(ref, dev, execution_site).get_put_item() on a day     *)
(* whose date.today().isoformat() is today                                 *)
get_put_item(ref, dev, execution_site, today) ==
    LET primary_key == "diff-" \o ref \o "-" \o dev
        suffix      == s3_uri_suffix(ref)
        root        == s3_root(execution_site)
        s3_uri      == root.s \o "/" \o suffix.s \o "/" \o primary_key
        item ==
            [InstanceID |-> Str(primary_key),
             CreationDate |-> Str(today),
             ExecStatus |-> Str("PENDING"),
             S3Uri |-> Str(s3_uri),
             Description |-> Str("Benchmark plots for Ref=" \o ref \o " and Dev="
                                   \o dev \o " (" \o suffix.s \o ")"),
             Site |-> Str(execution_site),
             Stages |-> List(<<>>)]
    IN  IF IsRaise(suffix) THEN suffix
        ELSE IF IsRaise(root) THEN root
        ELSE dynamodb_encode_dict(Dict(item))

(* ------------------------ inputs of the builder ------------------------ *)

(* Largest number of dash-separated tokens between the engine and the      *)
(* version of a generated reference identifier.                            *)
MaxTokens == 2

RefTokens == {"1Hr", "1Day", "1Mon", "4x5"}

RECURSIVE TokenLists(_)
TokenLists(n) ==
    IF n = 0 THEN {<<>>}
    ELSE {Append(q, x) : q \in TokenLists(n - 1), x \in RefTokens}

RECURSIVE Dashed(_)
Dashed(q) == IF Len(q) = 0 THEN "" ELSE Head(q) \o "-" \o Dashed(Tail(q))

(* gcc-<token>-...-<token>-13.4.0 and the tokens it was put together from: *)
(* each token stands between two dashes.                                   *)
RefOfTokens(q) == [ref |-> "gcc-" \o Dashed(q) \o "13.4.0", tokens |-> q]

(* Identifiers in which a cadence is not between two dashes, or is inside  *)
(* the version.                                                            *)
OddRefs ==
    {[ref |-> "gcc-1Hr", tokens |-> <<>>], [ref |-> "1Mon-13.4.0", tokens |-> <<>>],
     [ref |-> "gcc-1hr-13.4.0", tokens |-> <<>>], [ref |-> "", tokens |-> <<>>],
     [ref |-> "gcc-1Mon-1.0.0-a-1Hr-b", tokens |-> <<"1Mon", "1Hr">>]}

(* Identifiers of the simulation grammar, with the cadence each carries. *)
GrammarRefs ==
    {[ref |-> "gcc-1Hr-3f70328.bd", tokens |-> <<"1Hr">>],
     [ref |-> "gchp-c24-1Mon-13.4.0-rc.3", tokens |-> <<"1Mon">>],
     [ref |-> "gcc-2x2.5-1Mon-13.4.0.bd", tokens |-> <<"1Mon">>],
     [ref |-> "gchp-1Hr-1234567.0.1-abcdef1+b1", tokens |-> <<"1Hr">>]}

Refs ==
    {RefOfTokens(q) : q \in UNION {TokenLists(n) : n \in 0..MaxTokens}}
      \cup OddRefs \cup GrammarRefs

Devs ==
    {"gcc-1Hr-3f70328.bd", "gchp-c24-1Mon-13.4.0-rc.3", "gcc-1Day-13.4.0",
     "gcc-1Mon-1.0.0-a-1Hr-b", "gchp-180-1Hr-13.4.0-rc.3.bd", "scratch", ""}

Sites == {"AWS", "WUSTL", "Mars", "aws", ""}

Days == {"2022-04-04", "2026-11-01"}

(* --------------------------- builder calls ----------------------------- *)

InitBuilder ==
    /\ pc = "start"
    /\ res = None
    /\ \E r \in Refs, dev \in Devs, site \in Sites, today \in Days :
         arg = [ref |-> r.ref, tokens |-> r.tokens, dev |-> dev, site |-> site,
                today |-> today]

GetPutItem ==
    /\ pc = "start"
    /\ res' = get_put_item(arg.ref, arg.dev, arg.site, arg.today)
    /\ pc' = "built"
    /\ UNCHANGED arg

(* the item read back: dynamodb_decode_dict of what get_put_item returned *)
DecodePutItem ==
    /\ pc = "built"
    /\ ~IsRaise(res)
    /\ res' = dynamodb_decode_dict(res)
    /\ pc' = "read"
    /\ UNCHANGED arg

(* the classification of the item read back: PrimaryKeyClassification of  *)
(* its InstanceID, as RegistryEntry.__post_init__ calls it                 *)
ClassifyPutItem ==
    /\ pc = "read"
    /\ res' = PrimaryKeyClassification(Get(res, "InstanceID"))
    /\ pc' = "classified_item"
    /\ UNCHANGED arg

NextBuilder == GetPutItem \/ DecodePutItem \/ ClassifyPutItem

SpecBuilder == InitBuilder /\ [][NextBuilder]_vars

(* ------------------------------ claims --------------------------------- *)

(* C1: for every native value v (strings, booleans, lists and string-keyed *)
(* dicts, nested, the empty list and the empty dict included) encode       *)
(* returns a wire value and decoding that wire value gives v back.         *)
C1_RoundTrip ==
    IsNative(arg) =>
        /\ pc = "encoded" => ~IsRaise(res)
        /\ pc = "roundtrip" => res = arg

C1_Witness ==
    /\ pc = "roundtrip"
    /\ arg = DictOf(<<List(<<Str("x"), EmptyDict>>)>>)
    /\ res = arg

(* The node positions of a wire value: the value itself, the elements of   *)
(* the list a single-key node holds and the values of the dict it holds.   *)
(* AllNodesAreMappings: every node position holds a dict.                  *)
RECURSIVE AllNodesAreMappings(_)
AllNodesAreMappings(w) ==
    /\ w.ty = "dict"
    /\ Cardinality(DOMAIN w.d) = 1 =>
         LET c == FirstValue(w)
         IN  /\ c.ty = "list" => \A i \in DOMAIN c.l : AllNodesAreMappings(c.l[i])
             /\ c.ty = "dict" => \A k \in DOMAIN c.d : AllNodesAreMappings(c.d[k])

(* Some node position holds a dict of zero keys or of two or more keys.    *)
RECURSIVE HasMiscountedNode(_)
HasMiscountedNode(w) ==
    /\ w.ty = "dict"
    /\ \/ Cardinality(DOMAIN w.d) # 1
       \/ LET c == FirstValue(w)
          IN  \/ c.ty = "list" /\ \E i \in DOMAIN c.l : HasMiscountedNode(c.l[i])
              \/ c.ty = "dict" /\ \E k \in DOMAIN c.d : HasMiscountedNode(c.d[k])

(* C2: decode never returns a value for a wire value with a node of zero   *)
(* or of several keys, at the top or nested in a list or a map; when every *)
(* node is a mapping the failure is the ValueError (MalformedEncoding).    *)
C2_MalformedEncoding ==
    (pc = "decoded" /\ HasMiscountedNode(arg)) =>
        /\ IsRaise(res)
        /\ AllNodesAreMappings(arg) => res = Raise(DecodeValueError)

C2_Witness ==
    /\ pc = "decoded"
    /\ arg = DictOf(<<List(<<DictOf(<<Str("x"), Str("x")>>)>>)>>)
    /\ res = Raise(DecodeValueError)

Unknown == Classification(Str("Unknown"), None, None, None)

(* C3: classification never fails: for every key that is a string the      *)
(* construction returns an object, and a key that is neither a simulation  *)
(* identifier nor a difference identifier of the grammar is "Unknown" with *)
(* api, code URL and commit id absent.                                     *)
C3_TotalUnknown ==
    (pc = "classified" /\ arg.key.ty = "str") =>
        /\ ~IsRaise(res)
        /\ ~arg.wellformed => res = Unknown

(* C4: a key of the simulation grammar is "GCHP Simulation" when it starts *)
(* with gchp and "GC-Classic Simulation" otherwise, with api "simulation". *)
C4_SimulationLabel ==
    (pc = "classified" /\ arg.form = "simulation" /\ arg.wellformed) =>
        /\ ~IsRaise(res)
        /\ res.classification =
             Str(IF StartsWith(arg.key.s, "gchp") THEN "GCHP Simulation"
                 ELSE "GC-Classic Simulation")
        /\ res.api = Str("simulation")
        /\ arg.key.s \in {"gcc-1Hr-483b659.bd", "gcc-1Hr-483b659", "gcc-4x5-1Hr-483b659"}
             => res.classification = Str("GC-Classic Simulation")

C4_Witness ==
    /\ pc = "classified"
    /\ ~IsRaise(res)
    /\ arg.key = Str("gchp-c24-1Mon-13.4.0-rc.3")
    /\ res.classification = Str("GCHP Simulation")
    /\ res.api = Str("simulation")

(* The positions of s at which seven lowercase-hex characters start. *)
HexRunStarts(s) ==
    {i \in 1..(Len(s) - 6) : \A j \in 0..6 : SubSeq(s, i + j, i + j) \in HexDigit}

(* C5: for a key of the simulation grammar the commit id is the first      *)
(* seven-character lowercase-hex substring of the key, with a "commit" URL *)
(* of the engine's repository, whenever the key has one; otherwise it is   *)
(* the semantic version (without the .bd marker) with a "tree" URL.        *)
C5_HashOverwritesSemver ==
    (pc = "classified" /\ arg.form = "simulation" /\ arg.wellformed) =>
        LET k    == arg.key.s
            repo == IF arg.engine = "gchp" THEN "GCHP" ELSE "GCClassic"
            base == "https://github.com/geoschem/" \o repo
            i    == Min(HexRunStarts(k))
        IN  /\ ~IsRaise(res)
            /\ HexRunStarts(k) # {} =>
                 /\ res.commit_id = Str(SubSeq(k, i, i + 6))
                 /\ res.code_url = Str(base \o "/commit/" \o SubSeq(k, i, i + 6))
            /\ HexRunStarts(k) = {} =>
                 /\ res.commit_id = Str(arg.version)
                 /\ res.code_url = Str(base \o "/tree/" \o arg.version)
            /\ k = "gcc-1Hr-f9a901a.bd" =>
                 /\ res.commit_id = Str("f9a901a")
                 /\ res.code_url =
                      Str("https://github.com/geoschem/GCClassic/commit/f9a901a")

(* a key with a semantic version and a hash substring: the hash is kept *)
C5_Witness ==
    /\ pc = "classified"
    /\ ~IsRaise(res)
    /\ arg.key = Str("gchp-1Mon-13.4.0-abcdef1.bd")
    /\ res.commit_id = Str("abcdef1")
    /\ res.code_url = Str("https://github.com/geoschem/GCHP/commit/abcdef1")

(* C6: a key diff-<simulation identifier>-<simulation identifier> is       *)
(* "Difference Plots" with api "difference" and no code URL or commit id;  *)
(* no key matches the simulation pattern and the difference pattern, and   *)
(* no simulation identifier is classified as a difference.                 *)
C6_DifferenceLabel ==
    pc = "classified" =>
        /\ (arg.form = "difference" /\ arg.wellformed) =>
             res = Classification(Str("Difference Plots"), Str("difference"),
                                  None, None)
        /\ (arg.form = "simulation" /\ arg.wellformed) =>
             res.api # Str("difference")
        /\ arg.key.ty = "str" =>
             ~(/\ ReMatch(Cat(<<Bol, simulation_re, Eol>>), arg.key.s)
               /\ ReMatch(difference_re, arg.key.s))

C6_Witness ==
    /\ pc = "classified"
    /\ ~IsRaise(res)
    /\ arg.key = Str("diff-gcc-1Hr-3f70328.bd-gcc-1Hr-3f70328.bd")
    /\ res.classification = Str("Difference Plots")
    /\ res.api = Str("difference")
    /\ res.code_url = None
    /\ res.commit_id = None

(* The stage object whose fields are the values of the mapping m. *)
FilledStage(m) ==
    [ty |-> "RegistryEntryStage", name |-> Get(m, "Name"),
     completed |-> Get(m, "Completed"), log_file |-> Get(m, "Log"),
     start_time |-> Get(m, "StartTime"), end_time |-> Get(m, "EndTime"),
     artifacts |-> Get(m, "Artifacts"),
     public_artifacts |-> Get(m, "PublicArtifacts"),
     metadata |-> Get(m, "Metadata")]

(* C7: a simulation entry built from a point-query result whose Stages     *)
(* list has one stage has that stage's values in its first stage, and a    *)
(* second stage that is the empty stage: scalar fields absent, both        *)
(* artifact lists empty, metadata "{}".                                    *)
C7_EmptySecondStage ==
    (/\ pc = "parsed" /\ arg.astype = "RegistryEntrySimulation" /\ arg.keyed
     /\ Len(arg.stages) = 1 /\ DOMAIN arg.stages[1].fields.d # {}) =>
        /\ ~IsRaise(res)
        /\ res.setup_run_directory = FilledStage(arg.stages[1].fields)
        /\ res.run_simulation_directory = NewStage

(* The stage object at a position of the entry: a stage in any case, and   *)
(* filled from the i-th stage of the list when the list has one.           *)
StageFromPosition(stage, i) ==
    /\ stage.ty = "RegistryEntryStage"
    /\ i <= Len(arg.stages) => stage = FilledStage(arg.stages[i].fields)

(* C8: building a simulation or a difference entry from a point-query      *)
(* result never raises for a Stages list of any length: the stage fields   *)
(* are stage objects, filled from position 0 and 1 (simulation) or 0       *)
(* (difference) where the list has them; the only failure is the one of a  *)
(* result without InstanceID.                                              *)
C8_MissingStagesNeverRaise ==
    pc = "parsed" =>
        /\ IsRaise(res) <=> ~arg.keyed
        /\ IsRaise(res) => res = Raise(ReTypeError)
        /\ (~IsRaise(res) /\ arg.astype = "RegistryEntrySimulation") =>
             /\ StageFromPosition(res.setup_run_directory, 1)
             /\ StageFromPosition(res.run_simulation_directory, 2)
        /\ (~IsRaise(res) /\ arg.astype = "RegistryEntryDiff") =>
             StageFromPosition(res.run_gcpy_stage, 1)

C8_Witness ==
    /\ pc = "parsed"
    /\ ~IsRaise(res)
    /\ arg.astype = "RegistryEntrySimulation"
    /\ Len(arg.stages) = 1
    /\ arg.stages[1].fields = SetupStage
    /\ res.setup_run_directory.name = Str("SetupRunDirectory")
    /\ res.run_simulation_directory.ty = "RegistryEntryStage"

(* The cadence the tokens of the reference identifier stand for. *)
CadenceOfTokens(q) ==
    LET has(t) == \E i \in DOMAIN q : q[i] = t
    IN  IF has("1Hr") THEN "1Hr"
        ELSE IF has("1Day") THEN "1Day"
        ELSE IF has("1Mon") THEN "1Mon"
        ELSE "none"

BucketOf(site) ==
    IF site = "AWS" THEN "s3://benchmarks-cloud" ELSE "s3://washu-benchmarks-cloud"

(* C9: for a ref with a cadence and site AWS or WUSTL, get_put_item gives  *)
(* the encoding of InstanceID = diff-<ref>-<dev>, S3Uri =                  *)
(* <root>/diff-plots/<cadence>/<InstanceID>, ExecStatus = PENDING, Site =  *)
(* the site and Stages = the empty list, and decoding gives these back.    *)
C9_PutItem ==
    (/\ pc \in {"built", "read"} /\ arg.site \in {"AWS", "WUSTL"}
     /\ CadenceOfTokens(arg.tokens) # "none") =>
        LET id  == "diff-" \o arg.ref \o "-" \o arg.dev
            uri == BucketOf(arg.site) \o "/diff-plots/"
                     \o CadenceOfTokens(arg.tokens) \o "/" \o id
        IN  /\ ~IsRaise(res)
            /\ DOMAIN res.d = {"InstanceID", "CreationDate", "ExecStatus", "S3Uri",
                               "Description", "Site", "Stages"}
            /\ pc = "built" =>
                 /\ res.d["InstanceID"] = Dict1("S", Str(id))
                 /\ res.d["S3Uri"] = Dict1("S", Str(uri))
                 /\ res.d["ExecStatus"] = Dict1("S", Str("PENDING"))
                 /\ res.d["Site"] = Dict1("S", Str(arg.site))
                 /\ res.d["Stages"] = Dict1("L", List(<<>>))
            /\ pc = "read" =>
                 /\ res.d["InstanceID"] = Str(id)
                 /\ res.d["S3Uri"] = Str(uri)
                 /\ res.d["ExecStatus"] = Str("PENDING")
                 /\ res.d["Site"] = Str(arg.site)
                 /\ res.d["Stages"] = List(<<>>)

C9_Witness ==
    /\ pc = "read"
    /\ arg.ref = "gcc-1Hr-13.4.0"
    /\ arg.dev = "gcc-1Hr-3f70328.bd"
    /\ arg.site = "AWS"
    /\ res.d["S3Uri"] =
         Str("s3://benchmarks-cloud/diff-plots/1Hr/diff-gcc-1Hr-13.4.0-gcc-1Hr-3f70328.bd")
    /\ res.d["Stages"] = List(<<>>)

(* C10: the cadence comes from ref alone: 1Hr if ref has "-1Hr-", else     *)
(* 1Day if it has "-1Day-", else 1Mon if it has "-1Mon-", else the call    *)
(* fails with the RuntimeError of the cadence test, whatever dev and site. *)
C10_CadenceFromRef ==
    pc = "built" =>
        LET cadence == CadenceOfTokens(arg.tokens)
            id      == "diff-" \o arg.ref \o "-" \o arg.dev
        IN  /\ cadence = "none" => res = Raise(NoPeriodError)
            /\ (cadence # "none" /\ arg.site \in {"AWS", "WUSTL"}) =>
                 /\ ~IsRaise(res)
                 /\ res.d["S3Uri"].d["S"].s =
                      BucketOf(arg.site) \o "/diff-plots/" \o cadence \o "/" \o id
                 /\ res.d["Description"].d["S"].s =
                      "Benchmark plots for Ref=" \o arg.ref \o " and Dev=" \o arg.dev
                        \o " (" \o cadence \o ")"

(* several markers in ref, another one in dev: the first of the order *)
C10_Witness ==
    /\ pc = "built"
    /\ arg.tokens = <<"1Mon", "1Day">>
    /\ arg.dev = "gcc-1Hr-3f70328.bd"
    /\ arg.site = "WUSTL"
    /\ res.d["S3Uri"].d["S"].s =
         "s3://washu-benchmarks-cloud/diff-plots/1Day/diff-gcc-1Mon-1Day-13.4.0-gcc-1Hr-3f70328.bd"

(* C11 as stated: whatever ref and dev, a site that is not exactly "AWS"   *)
(* or "WUSTL" makes get_put_item fail with the RuntimeError of the site    *)
(* test.                                                                   *)
C11_UnknownSiteAnyRef ==
    (pc = "built" /\ arg.site \notin {"AWS", "WUSTL"}) =>
        res = Raise(InvalidSiteError)

(* C11 amended: a site that is not exactly "AWS" or "WUSTL" never gives an *)
(* item; the failure is the RuntimeError of the site test when ref has a   *)
(* cadence marker and the RuntimeError of the cadence test, which comes    *)
(* first, when it has none.  The root follows the exact site string only.  *)
C11_UnknownSite ==
    /\ (pc = "built" /\ arg.site \notin {"AWS", "WUSTL"}) =>
          /\ IsRaise(res)
          /\ CadenceOfTokens(arg.tokens) # "none" => res = Raise(InvalidSiteError)
          /\ CadenceOfTokens(arg.tokens) = "none" => res = Raise(NoPeriodError)
    /\ (pc = "built" /\ ~IsRaise(res)) =>
          /\ arg.site \in {"AWS", "WUSTL"}
          /\ StartsWith(res.d["S3Uri"].d["S"].s, BucketOf(arg.site) \o "/diff-plots/")
    /\ pc \notin {"start", "built"} => arg.site \in {"AWS", "WUSTL"}

C11_Witness ==
    /\ pc = "built"
    /\ arg.site = "Mars"
    /\ arg.ref = "gcc-1Hr-13.4.0"
    /\ arg.dev = "gcc-1Hr-3f70328.bd"
    /\ res = Raise(InvalidSiteError)

(* The field of the entry, and of the stage, that each wire name fills. *)
EntryFieldOf ==
    [InstanceID |-> "primary_key", CreationDate |-> "creation_date",
     ExecStatus |-> "execution_status", Site |-> "execution_site",
     S3Uri |-> "s3_uri", Description |-> "description"]

StageFieldOf ==
    [Name |-> "name", Completed |-> "completed", Log |-> "log_file",
     StartTime |-> "start_time", EndTime |-> "end_time",
     Artifacts |-> "artifacts", PublicArtifacts |-> "public_artifacts",
     Metadata |-> "metadata"]

(* The keywords of a direct construction from the values of the mapping d: *)
(* one keyword per value d holds.                                          *)
Keywords(names, d) ==
    [f \in {names[k] : k \in DOMAIN names \cap DOMAIN d.d} |->
        d.d[CHOOSE k \in DOMAIN names : names[k] = f]]

(* The stage constructed from the decoded values of the i-th stage of the  *)
(* list: from no value when the list has no i-th stage.                    *)
ConstructedStage(i) ==
    RegistryEntryStageKw(IF i <= Len(arg.stages)
                         THEN Keywords(StageFieldOf, arg.stages[i].fields)
                         ELSE <<>>)

(* C12: an entry parsed from a wire item that carries InstanceID equals    *)
(* the entry constructed from the decoded values: the RegistryEntry of a   *)
(* scan item, and the simulation or difference entry of a point-query item *)
(* with its stage fields set to the stages constructed from the decoded    *)
(* stage values.                                                           *)
C12_ParsedEqualsConstructed ==
    arg.keyed =>
        LET kw == Keywords(EntryFieldOf, dynamodb_decode_dict(arg.item))
        IN  /\ pc = "scanned" => res = RegistryEntryKw(kw)
            /\ (pc = "parsed" /\ arg.astype = "RegistryEntrySimulation") =>
                 res = [RegistryEntrySimulationKw(kw) EXCEPT
                          !.setup_run_directory = ConstructedStage(1),
                          !.run_simulation_directory = ConstructedStage(2)]
            /\ (pc = "parsed" /\ arg.astype = "RegistryEntryDiff") =>
                 res = [RegistryEntryDiffKw(kw) EXCEPT
                          !.run_gcpy_stage = ConstructedStage(1)]

(* The values inside v, v included, that are no str, bool, list or dict.   *)
RECURSIVE UnsupportedLeaves(_)
UnsupportedLeaves(v) ==
    IF v.ty \in {"str", "bool"} THEN {}
    ELSE IF v.ty = "list" THEN UNION {UnsupportedLeaves(v.l[i]) : i \in DOMAIN v.l}
    ELSE IF v.ty = "dict" THEN UNION {UnsupportedLeaves(v.d[k]) : k \in DOMAIN v.d}
    ELSE {v}

(* C13: encode of a value that is, or holds at any depth, a value that is  *)
(* no string, boolean, list or dict (a number, None) returns nothing: it   *)
(* raises the TypeError naming the type of such a value; dynamodb_encode_  *)
(* dict does the same for the values of its dict.  Every other value is    *)
(* encoded.                                                                *)
C13_UnsupportedType ==
    pc \in {"encoded", "encoded_dict"} =>
        /\ IsRaise(res) <=> UnsupportedLeaves(arg) # {}
        /\ IsRaise(res) =>
             /\ res.excs # {}
             /\ \A e \in res.excs :
                  /\ e.type = "TypeError"
                  /\ \E x \in UnsupportedLeaves(arg) : e = EncodeTypeError(x)
        /\ (arg.ty = "list" /\ UnsupportedLeaves(arg) # {}) =>
             LET i == Min({j \in DOMAIN arg.l : UnsupportedLeaves(arg.l[j]) # {}})
             IN  res.excs \subseteq {EncodeTypeError(x) : x \in UnsupportedLeaves(arg.l[i])}

C13_Witness ==
    /\ pc = "encoded"
    /\ arg = List(<<Str("x"), DictOf(<<PyInt(1)>>)>>)
    /\ res = Raise(Exc("TypeError", "Invalid type for encoding: int"))

(* The identifiers put together from tokens of the simulation grammar. *)
GrammarIds ==
    {k.key.s : k \in {x \in SimulationKeys \cup DifferenceSides : x.wellformed}}

(* C14: for ref and dev of the simulation grammar and site AWS or WUSTL,   *)
(* get_put_item returns an item (the cadence test never fails), and the    *)
(* InstanceID of the item is classified "Difference Plots" with api        *)
(* "difference".                                                           *)
C14_BuilderClassifierAgree ==
    (/\ arg.ref \in GrammarIds /\ arg.dev \in GrammarIds
     /\ arg.site \in {"AWS", "WUSTL"}) =>
        /\ pc = "built" =>
             /\ ~IsRaise(res)
             /\ res.d["InstanceID"] =
                  Dict1("S", Str("diff-" \o arg.ref \o "-" \o arg.dev))
        /\ pc = "classified_item" =>
             /\ ~IsRaise(res)
             /\ res.classification = Str("Difference Plots")
             /\ res.api = Str("difference")

C14_Witness ==
    /\ pc = "classified_item"
    /\ arg.ref = "gcc-1Mon-1.0.0-a-1Hr-b"
    /\ arg.dev = "gchp-180-1Hr-13.4.0-rc.3.bd"
    /\ arg.site = "WUSTL"
    /\ res = Classification(Str("Difference Plots"), Str("difference"), None, None)

(* C15: in the classification of a key that is a string, code_url and      *)
(* commit_id are both present or both absent, they are present exactly     *)
(* when api is "simulation", and api is absent exactly when the            *)
(* classification is "Unknown".                                            *)
C15_ClassificationInvariant ==
    (pc = "classified" /\ arg.key.ty = "str") =>
        /\ ~IsRaise(res)
        /\ res.code_url = None <=> res.commit_id = None
        /\ res.code_url # None <=> res.api = Str("simulation")
        /\ res.api = None <=> res.classification = Str("Unknown")
        /\ res.api \in {None, Str("simulation"), Str("difference")}

(* a key whose version is a semantic version without a hash substring *)
C15_Witness ==
    /\ pc = "classified"
    /\ ~IsRaise(res)
    /\ arg.key = Str("gchp-1Mon-13.4.0-rc.3.bd")
    /\ res.api = Str("simulation")
    /\ res.commit_id = Str("13.4.0-rc.3")
    /\ res.code_url = Str("https://github.com/geoschem/GCHP/tree/13.4.0-rc.3")

====
